---- MODULE Spec2Model ----
(***************************************************************************)
(* The Topic Analysis Toolkit of the notebook "Twitter Topic Modeling -    *)
(* Matrix Factorization": words_from_topic / print_top_words (Question 5), *)
(* the Largest Topic cell (Question 7) and the Outlier Tweets cell         *)
(* (Question 8).  The notebook is a sequential program whose state is the  *)
(* kernel's global namespace; every cell is a straight-line run of         *)
(* statements over it.                                                     *)
(*                                                                         *)
(* Conventions.  Python sequences are 0-based, TLA+ sequences 1-based: an  *)
(* index VALUE held in the state (an entry of ind, y, z, rows, the topic   *)
(* index printed) is the Python value, and a[v] of the code is a[v + 1]    *)
(* here.  Weights are integers in a fixed unit (floats are only compared   *)
(* for order and equality by the code).  A name of the kernel that may be  *)
(* unbound is a sequence: << >> when unbound, <<v>> when bound to v.       *)
(***************************************************************************)
EXTENDS Integers, Sequences, FiniteSets, TLC

VARIABLES
    pc,                     \* the statement the kernel executes next
    err,                    \* the exception that ended the run, or "none"
    stdout,                 \* the lines printed so far
    \* ---- Question 5: words_from_topic / print_top_words
    feature_names,          \* the vocabulary
    components,             \* the topic-term matrix, one row per topic
    n_top_words,            \* print_top_words' third argument
    stable_sort,            \* whether this build's np.argsort keeps ties in index order
    topic_index,            \* the loop variable of print_top_words
    ordered_words,          \* the value words_from_topic returned last
    \* ---- Question 7: Largest Topic
    tweets_projected,       \* the document-topic matrix, one row per tweet
    y,                      \* per-tweet topic (Question 7); reused by Question 8
    count,                  \* np.unique(y, return_counts=True): <<values, counts>>
    largest_topic,          \* kernel name, unbound until first assigned
    \* ---- Question 8: Outlier Tweets
    tweets_projected_small, \* column 2 of the 3-topic projection, one weight per tweet
    text,                   \* the 'text' column of the tweets DataFrame
    z,
    rows,
    outlier_tweets

vars == <<pc, err, stdout, feature_names, components, n_top_words, stable_sort,
          topic_index, ordered_words, tweets_projected, y, count, largest_topic,
          tweets_projected_small, text, z, rows, outlier_tweets>>

q5vars == <<feature_names, components, n_top_words, stable_sort, topic_index,
            ordered_words>>
q7vars == <<tweets_projected, count, largest_topic>>
q8vars == <<tweets_projected_small, text, z, rows, outlier_tweets>>

-----------------------------------------------------------------------------
(* Bounds of the model. *)

\* most vocabulary terms
MaxV == 3
\* most entries (rows times columns) of the topic-term matrix
MaxCells == 4
\* largest n_top_words
MaxN == 3

\* most entries (tweets times topics) of the document-topic matrix
MaxProjCells == 8

\* Weights of the document-topic matrix, in units of 0.1.
ProjWeights == {1, 3}

\* most tweets when the Outlier Tweets cell runs
MaxDocs == 3

\* The threshold 0.15 of the Outlier Tweets cell, in units of 0.05.
Threshold == 3
\* Weights of tweets on Topic 2 of the 3-topic model, in units of 0.05:
\* 0.10, 0.15, 0.20.
SmallWeights == {2, 3, 4}
\* The tweet texts, in Python's string order.
Texts == <<"", "distinct", "hello world">>
\* Rows of the 5-topic projection a tweet can have when the Outlier Tweets
\* cell runs: one dominated by topic 0, one by topic 1.
DominatedRows == {<<3, 1>>, <<1, 3>>}

\* The vocabulary is a prefix of these distinct terms.
Terms == <<"dogs", "cats", "axolotl", "bats", "eels">>
\* Weights of the topic-term matrix.
TermWeights == {1, 2, 4}

-----------------------------------------------------------------------------
(* Helpers: Python / numpy primitives the cells use. *)

Min(a, b) == IF a <= b THEN a ELSE b

SeqMax(a) == CHOOSE m \in {a[i] : i \in DOMAIN a} : \A i \in DOMAIN a : a[i] <= m

\* a[::-1]
Reversed(a) == [i \in 1..Len(a) |-> a[Len(a) + 1 - i]]

\* The slice taking one element too many.
Prefix_one_more(a, n) == SubSeq(a, 1, Min(n + 1, Len(a)))

\* a[:n] for n >= 0
Prefix(a, n) == SubSeq(a, 1, Min(n, Len(a)))

\* sep.join(words)
RECURSIVE join(_, _)
join(sep, words) ==
    IF Len(words) = 0 THEN ""
    ELSE IF Len(words) = 1 THEN words[1]
    ELSE words[1] \o sep \o join(sep, Tail(words))

\* All rectangular matrices over S with at most cells entries and at least
\* minc columns.
SmallMatrices(S, cells, minc) ==
    UNION {[1..d[1] -> [1..d[2] -> S]] :
              d \in {e \in (0..cells) \X (minc..cells) : e[1] * e[2] <= cells}}

\* The elements of a finite set of integers in ascending order.
RECURSIVE Sorted(_)
Sorted(S) ==
    IF S = {} THEN << >>
    ELSE LET m == CHOOSE x \in S : \A v \in S : x <= v
         IN  <<m>> \o Sorted(S \ {m})

\* np.unique(a, return_counts=True): the sorted distinct values of a, and how
\* often each occurs.
unique(a) ==
    LET values == Sorted({a[i] : i \in DOMAIN a})
    IN  <<values,
          [k \in DOMAIN values |->
              Cardinality({i \in DOMAIN a : a[i] = values[k]})]>>

\* argmax returning the last occurrence of the maximum.
argmax_last(a) ==
    CHOOSE k \in 0..(Len(a) - 1) :
        /\ a[k + 1] = SeqMax(a)
        /\ \A j \in 0..(Len(a) - 1) : a[j + 1] = SeqMax(a) => j <= k

\* np.argmax(a): the index of the first occurrence of the maximum.
argmax(a) ==
    CHOOSE k \in 0..(Len(a) - 1) :
        /\ a[k + 1] = SeqMax(a)
        /\ \A j \in 0..(k - 1) : a[j + 1] < a[k + 1]

\* The arrangements of the set S as sequences without repetition.
RECURSIVE Arrangements(_)
Arrangements(S) ==
    IF S = {} THEN {<< >>}
    ELSE UNION {{<<x>> \o p : p \in Arrangements(S \ {x})} : x \in S}

\* The 0-based index permutations of 0..n-1, as sequences of length n.
IndexPermutations(n) == Arrangements(0..(n - 1))

\* argsort with the tie order of a stable sort inverted.
argsort_ties_descending(a, stable) ==
    {p \in IndexPermutations(Len(a)) :
        \A i \in 1..(Len(a) - 1) :
            \/ a[p[i] + 1] < a[p[i + 1] + 1]
            \/ /\ a[p[i] + 1] = a[p[i + 1] + 1]
               /\ (stable => p[i] > p[i + 1])}

\* np.argsort(a): the index arrays that put a in ascending order.  The default
\* kind ("quicksort") promises no order among equal keys; a build whose sort is
\* stable (insertion sort on short arrays) keeps equal keys in index order.
argsort(a, stable) ==
    {p \in IndexPermutations(Len(a)) :
        \A i \in 1..(Len(a) - 1) :
            \/ a[p[i] + 1] < a[p[i + 1] + 1]
            \/ /\ a[p[i] + 1] = a[p[i + 1] + 1]
               /\ (stable => p[i] < p[i + 1])}

\* np.array(a)[ind] with an integer index array: IndexError when an index is
\* out of bounds, else the elements picked in the order of ind.
take(a, ind) ==
    IF \E i \in DOMAIN ind : ind[i] >= Len(a)
    THEN [err |-> "IndexError", val |-> << >>]
    ELSE [err |-> "none", val |-> [i \in DOMAIN ind |-> a[ind[i] + 1]]]

-----------------------------------------------------------------------------
(* Question 5: words_from_topic and print_top_words. *)

\* ind without the [::-1] reversal.
RankIndices_unreversed(topic, stable) == argsort(topic, stable)

\* ind = np.argsort(topic)[::-1]
RankIndices(topic, stable) == {Reversed(p) : p \in argsort(topic, stable)}

\* words_from_topic(topic, feature_names): the outcomes the call can have.
words_from_topic(topic, names, stable) ==
    {take(names, ind) : ind \in RankIndices(topic, stable)}

\* The line with topics numbered from 1.
TopicLine_one_based(index, words, n) ==
    "Topic: #" \o ToString(index + 1) \o ": " \o join(", ", Prefix(words, n))

\* The line print_top_words prints for one topic.
TopicLine(index, words, n) ==
    "Topic: #" \o ToString(index) \o ": " \o join(", ", Prefix(words, n))

\* One iteration of print_top_words' loop over enumerate(components).
PrintTopic ==
    /\ pc = "print_top_words"
    /\ topic_index < Len(components)
    /\ \E r \in words_from_topic(components[topic_index + 1], feature_names,
                                 stable_sort) :
          IF r.err # "none"
          THEN /\ pc' = "error"
               /\ err' = r.err
               /\ UNCHANGED <<stdout, topic_index, ordered_words>>
          ELSE /\ ordered_words' = r.val
               /\ stdout' = Append(stdout,
                                   TopicLine(topic_index, r.val, n_top_words))
               /\ topic_index' = topic_index + 1
               /\ UNCHANGED <<pc, err>>
    /\ UNCHANGED <<feature_names, components, n_top_words, stable_sort>>
    /\ UNCHANGED <<y, q7vars, q8vars>>

\* The loop of print_top_words is exhausted: the call returns.
PrintReturn ==
    /\ pc = "print_top_words"
    /\ topic_index = Len(components)
    /\ pc' = "done"
    /\ UNCHANGED <<err, stdout, q5vars, y, q7vars, q8vars>>

InitRanker ==
    /\ pc = "print_top_words"
    /\ err = "none"
    /\ stdout = << >>
    /\ feature_names \in {SubSeq(Terms, 1, v) : v \in 0..MaxV}
    /\ components \in SmallMatrices(TermWeights, MaxCells, 0)
    /\ n_top_words \in 0..MaxN
    /\ stable_sort \in BOOLEAN
    /\ topic_index = 0
    /\ ordered_words = << >>
    /\ tweets_projected = << >>
    /\ y = << >>
    /\ count = << << >>, << >> >>
    /\ largest_topic = << >>
    /\ tweets_projected_small = << >>
    /\ text = << >>
    /\ z = << >>
    /\ rows = << >>
    /\ outlier_tweets = << >>

NextRanker == PrintTopic \/ PrintReturn

SpecRanker == InitRanker /\ [][NextRanker]_vars

-----------------------------------------------------------------------------
(* Question 7: Largest Topic. *)

\* The loop taking every topic whose count is the maximum, whatever came before.
RECURSIVE largest_loop_any(_, _, _)
largest_loop_any(i, cnt, cur) ==
    IF i > Len(cnt[2]) THEN cur
    ELSE largest_loop_any(i + 1, cnt,
                          IF cnt[2][i] >= 1 THEN <<cnt[1][i]>> ELSE cur)

\* for i in range(np.shape(count)[1]):
\*     if count[1][i] == max(count[1]): largest_topic = int(count[0][i])
\* from iteration i on, largest_topic being cur (the tuple count is <<cnt[1],
\* cnt[2]>> here, positions from 1).
RECURSIVE largest_loop(_, _, _)
largest_loop(i, cnt, cur) ==
    IF i > Len(cnt[2]) THEN cur
    ELSE largest_loop(i + 1, cnt,
                      IF cnt[2][i] = SeqMax(cnt[2]) THEN <<cnt[1][i]>> ELSE cur)

\* y = np.zeros(len(tweets_projected)); for i ...: y[i] = np.argmax(tweets_projected[i])
AssignTopics ==
    /\ pc = "q7_assign"
    /\ y' = [i \in 1..Len(tweets_projected) |-> argmax(tweets_projected[i])]
    /\ pc' = "q7_count"
    /\ UNCHANGED <<err, stdout, q5vars, q7vars, q8vars>>

\* count = np.unique(y, return_counts = True)
CountTopics ==
    /\ pc = "q7_count"
    /\ count' = unique(y)
    /\ pc' = "q7_largest"
    /\ UNCHANGED <<err, stdout, q5vars, y, tweets_projected, largest_topic, q8vars>>

\* The loop over count that assigns largest_topic.
LargestTopic ==
    /\ pc = "q7_largest"
    /\ largest_topic' = largest_loop(1, count, largest_topic)
    /\ pc' = "q7_print"
    /\ UNCHANGED <<err, stdout, q5vars, y, tweets_projected, count, q8vars>>

\* print(largest_topic)
PrintLargest ==
    /\ pc = "q7_print"
    /\ IF largest_topic = << >>
       THEN /\ pc' = "error"
            /\ err' = "NameError"
            /\ UNCHANGED stdout
       ELSE /\ pc' = "done"
            /\ stdout' = Append(stdout, ToString(largest_topic[1]))
            /\ UNCHANGED err
    /\ UNCHANGED <<q5vars, y, q7vars, q8vars>>

\* The kernel when the Question 7 cell starts: largest_topic is unbound on a
\* first execution, or still bound to what an earlier execution of the cell
\* assigned.
InitTopic ==
    /\ pc = "q7_assign"
    /\ err = "none"
    /\ stdout = << >>
    /\ feature_names = << >>
    /\ components = << >>
    /\ n_top_words = 0
    /\ stable_sort = TRUE
    /\ topic_index = 0
    /\ ordered_words = << >>
    /\ tweets_projected \in SmallMatrices(ProjWeights, MaxProjCells, 1)
    /\ y = << >>
    /\ count = << << >>, << >> >>
    /\ largest_topic \in {<< >>} \cup {<<k>> : k \in 0..(MaxProjCells - 1)}
    /\ tweets_projected_small = << >>
    /\ text = << >>
    /\ z = << >>
    /\ rows = << >>
    /\ outlier_tweets = << >>

NextTopic == AssignTopics \/ CountTopics \/ LargestTopic \/ PrintLargest

SpecTopic == InitTopic /\ [][NextTopic]_vars

-----------------------------------------------------------------------------
(* Question 8: Outlier Tweets. *)

\* np.zeros(n)
zeros(n) == [i \in 1..n |-> 0]

\* np.where(cond, a, -1), cond being col >= threshold elementwise
where_at_least(col, threshold, a) ==
    [i \in 1..Len(col) |-> IF col[i] >= threshold THEN a[i] ELSE -1]

\* text.iloc[r]['text']: row r by position, negative r counting from the end.
iloc(frame, r) ==
    IF r >= 0 /\ r < Len(frame) THEN [err |-> "none", val |-> frame[r + 1]]
    ELSE IF r < 0 /\ -r <= Len(frame)
         THEN [err |-> "none", val |-> frame[Len(frame) + r + 1]]
    ELSE [err |-> "IndexError", val |-> ""]

\* np.unique on an array of tweet texts: the distinct texts in string order.
unique_texts(a) ==
    LET ranks == Sorted({k \in 1..Len(Texts) : \E i \in DOMAIN a : a[i] = Texts[k]})
    IN  [i \in DOMAIN ranks |-> Texts[ranks[i]]]

\* How print shows a numpy array of strings.
array_str(a) ==
    "[" \o join(" ", [i \in DOMAIN a |-> "'" \o a[i] \o "'"]) \o "]"

\* The first statement binding z alone, y kept.
ZerosZ_only ==
    /\ pc = "q8_zeros"
    /\ z' = zeros(Len(tweets_projected_small))
    /\ pc' = "q8_where"
    /\ UNCHANGED <<err, stdout, q5vars, y, q7vars, tweets_projected_small, text,
                   rows, outlier_tweets>>

\* z = y = np.zeros(len(tweets_projected_small[:, 2]))
ZerosZY ==
    /\ pc = "q8_zeros"
    /\ y' = zeros(Len(tweets_projected_small))
    /\ z' = y'
    /\ pc' = "q8_where"
    /\ UNCHANGED <<err, stdout, q5vars, q7vars, tweets_projected_small, text,
                   rows, outlier_tweets>>

\* The selection written into the projection column in place.
WhereZ_in_place ==
    /\ pc = "q8_where"
    /\ tweets_projected_small' = where_at_least(tweets_projected_small, Threshold, y)
    /\ z' = tweets_projected_small'
    /\ pc' = "q8_rows"
    /\ UNCHANGED <<err, stdout, q5vars, y, q7vars, text, rows, outlier_tweets>>

\* z = np.where(tweets_projected_small[:, 2] >= 0.15, y, -1)
WhereZ ==
    /\ pc = "q8_where"
    /\ z' = where_at_least(tweets_projected_small, Threshold, y)
    /\ pc' = "q8_rows"
    /\ UNCHANGED <<err, stdout, q5vars, y, q7vars, tweets_projected_small, text,
                   rows, outlier_tweets>>

\* rows = np.delete(np.unique(z, return_counts=True)[0], 0)
DeleteRows ==
    /\ pc = "q8_rows"
    /\ LET values == unique(z)[1]
       IN  IF Len(values) = 0
           THEN /\ pc' = "error"
                /\ err' = "IndexError"
                /\ UNCHANGED rows
           ELSE /\ rows' = Tail(values)
                /\ pc' = "q8_gather"
                /\ UNCHANGED err
    /\ UNCHANGED <<stdout, q5vars, y, q7vars, tweets_projected_small, text, z,
                   outlier_tweets>>

\* outlier_tweets = np.empty(len(rows), dtype=object)
\* for i in range(len(rows)): outlier_tweets[i] = text.iloc[int(rows[i])]['text']
GatherTweets ==
    /\ pc = "q8_gather"
    /\ IF \E i \in DOMAIN rows : iloc(text, rows[i]).err # "none"
       THEN /\ pc' = "error"
            /\ err' = "IndexError"
            /\ UNCHANGED outlier_tweets
       ELSE /\ outlier_tweets' = [i \in DOMAIN rows |-> iloc(text, rows[i]).val]
            /\ pc' = "q8_unique"
            /\ UNCHANGED err
    /\ UNCHANGED <<stdout, q5vars, y, q7vars, tweets_projected_small, text, z, rows>>

\* outlier_tweets = np.unique(outlier_tweets, return_counts=True)[0]
UniqueTweets ==
    /\ pc = "q8_unique"
    /\ outlier_tweets' = unique_texts(outlier_tweets)
    /\ pc' = "q8_print"
    /\ UNCHANGED <<err, stdout, q5vars, y, q7vars, tweets_projected_small, text, z,
                   rows>>

\* print(outlier_tweets)
PrintOutliers ==
    /\ pc = "q8_print"
    /\ stdout' = Append(stdout, array_str(outlier_tweets))
    /\ pc' = "done"
    /\ UNCHANGED <<err, q5vars, y, q7vars, q8vars>>

\* The kernel when the Question 8 cell starts, the Question 7 cell having run
\* on tweets_projected: y, count and largest_topic are what that cell left.
InitOutlier ==
    /\ pc = "q8_zeros"
    /\ err = "none"
    /\ stdout = << >>
    /\ feature_names = << >>
    /\ components = << >>
    /\ n_top_words = 0
    /\ stable_sort = TRUE
    /\ topic_index = 0
    /\ ordered_words = << >>
    /\ \E d \in 0..MaxDocs :
          /\ tweets_projected \in [1..d -> DominatedRows]
          /\ tweets_projected_small \in [1..d -> SmallWeights]
          /\ text \in [1..d -> {Texts[k] : k \in 1..Len(Texts)}]
    /\ y = [i \in 1..Len(tweets_projected) |-> argmax(tweets_projected[i])]
    /\ count = unique(y)
    /\ largest_topic = largest_loop(1, count, << >>)
    /\ z = << >>
    /\ rows = << >>
    /\ outlier_tweets = << >>

NextOutlier ==
    ZerosZY \/ WhereZ \/ DeleteRows \/ GatherTweets \/ UniqueTweets \/ PrintOutliers

SpecOutlier == InitOutlier /\ [][NextOutlier]_vars

-----------------------------------------------------------------------------
(* Claims about words_from_topic and print_top_words (SpecRanker). *)

\* The topic handed to the call of words_from_topic that returned last.
LastTopic == components[topic_index]

\* A call of words_from_topic has returned, its two arguments of equal length.
RankedEqualLengths ==
    /\ topic_index >= 1
    /\ Len(LastTopic) = Len(feature_names)

\* Where term number i (0-based, in vocabulary order) stands in ordered_words.
PositionOf(i) == CHOOSE k \in 1..Len(ordered_words) :
                     ordered_words[k] = feature_names[i + 1]

\* The weight the last topic gives to a term of the vocabulary.
WeightOf(term) ==
    LastTopic[CHOOSE i \in 1..Len(feature_names) : feature_names[i] = term]

\* C3: on a weight vector and a vocabulary of equal length, words_from_topic
\* returns every vocabulary term exactly once, weights non-increasing from
\* first to last; weights [1, 4, 2] over [dogs, cats, axolotl] give
\* [cats, axolotl, dogs].
C3_RankingIsSortedPermutation ==
    RankedEqualLengths =>
        /\ Len(ordered_words) = Len(feature_names)
        /\ \A i \in 1..Len(feature_names) :
              Cardinality({k \in 1..Len(ordered_words) :
                              ordered_words[k] = feature_names[i]}) = 1
        /\ \A k \in 1..(Len(ordered_words) - 1) :
              WeightOf(ordered_words[k]) >= WeightOf(ordered_words[k + 1])
        /\ (LastTopic = <<1, 4, 2>> /\ feature_names = <<"dogs", "cats", "axolotl">>)
              => ordered_words = <<"cats", "axolotl", "dogs">>

C3_Witness ==
    /\ RankedEqualLengths
    /\ LastTopic = <<1, 4, 2>>
    /\ feature_names = <<"dogs", "cats", "axolotl">>
    /\ ordered_words = <<"cats", "axolotl", "dogs">>

\* C4 as stated: two terms of exactly equal weight appear in the output in
\* vocabulary order, the lower vocabulary index first.
C4_TiesInVocabularyOrder ==
    RankedEqualLengths =>
        \A i, j \in 0..(Len(feature_names) - 1) :
            (i < j /\ LastTopic[i + 1] = LastTopic[j + 1])
                => PositionOf(i) < PositionOf(j)

\* C4 as amended: the ascending argsort is reversed, so under a stable sort two
\* terms of exactly equal weight appear in REVERSE vocabulary order, the higher
\* vocabulary index first.
C4_TiesInReverseVocabularyOrder ==
    (RankedEqualLengths /\ stable_sort) =>
        \A i, j \in 0..(Len(feature_names) - 1) :
            (i < j /\ LastTopic[i + 1] = LastTopic[j + 1])
                => PositionOf(j) < PositionOf(i)

C4_Witness ==
    /\ RankedEqualLengths
    /\ stable_sort
    /\ LastTopic = <<2, 4, 2>>
    /\ feature_names = <<"dogs", "cats", "axolotl">>
    /\ ordered_words = <<"cats", "axolotl", "dogs">>

\* C9: a call of words_from_topic whose weight vector and vocabulary differ in
\* length fails; it never returns a list.  Stated on the state: a call that
\* returned had arguments of equal length.
C9_MismatchNeverReturns ==
    topic_index >= 1 => Len(LastTopic) = Len(feature_names)

\* C10: print_top_words prints one line per row of components, in row order:
\* line k (from 0) is labelled with k and carries the first n_top_words terms
\* of a ranking of row k (all its terms, weights non-increasing), joined by
\* ", "; when the call returns there are exactly as many lines as rows.
C10_LinesInRowOrder ==
    /\ Len(stdout) = topic_index
    /\ Len(stdout) <= Len(components)
    /\ pc = "done" => Len(stdout) = Len(components)
    /\ \A k \in 1..Len(stdout) :
          \E q \in IndexPermutations(Len(components[k])) :
              /\ \A i \in 1..(Len(q) - 1) :
                    components[k][q[i] + 1] >= components[k][q[i + 1] + 1]
              /\ stdout[k] = "Topic: #" \o ToString(k - 1) \o ": "
                                \o join(", ", Prefix([i \in 1..Len(q) |->
                                                 feature_names[q[i] + 1]],
                                              n_top_words))

C10_Witness ==
    /\ pc = "done"
    /\ components = << <<1, 4>>, <<4, 1>> >>
    /\ feature_names = <<"dogs", "cats">>
    /\ n_top_words = 2
    /\ stdout = <<"Topic: #0: cats, dogs", "Topic: #1: dogs, cats">>

-----------------------------------------------------------------------------
(* Claims about the Largest Topic cell (SpecTopic). *)

\* The per-tweet loop of the cell has run.
Assigned == pc \in {"q7_count", "q7_largest", "q7_print", "done", "error"}

\* The loop assigning largest_topic has run.
Aggregated == pc \in {"q7_print", "done", "error"}

\* How many tweets are assigned to topic k.
TweetsOf(k) == Cardinality({i \in 1..Len(y) : y[i] = k})

\* The topics no other topic has more tweets than.
MostPopulous ==
    {k \in {y[i] : i \in 1..Len(y)} : \A i \in 1..Len(y) : TweetsOf(y[i]) <= TweetsOf(k)}

\* C5: once the per-tweet loop has run, y holds one index per tweet; y[i] is a
\* column of row i in [0, K-1] holding the row maximum, and every column before
\* it holds strictly less (the lowest index among the maxima); weights
\* [0.3, 0.3, 0.1] give 0.
C5_DominantTopicLowestIndex ==
    Assigned =>
        /\ Len(y) = Len(tweets_projected)
        /\ \A i \in 1..Len(y) :
              LET row == tweets_projected[i]
              IN  /\ y[i] \in 0..(Len(row) - 1)
                  /\ \A j \in 1..Len(row) : row[j] <= row[y[i] + 1]
                  /\ \A j \in 1..y[i] : row[j] < row[y[i] + 1]
                  /\ row = <<3, 3, 1>> => y[i] = 0

C5_Witness ==
    /\ pc = "done"
    /\ tweets_projected = << <<3, 3, 1>>, <<1, 3, 3>> >>
    /\ y = <<0, 1>>

\* C6: when several topics are tied for the most assigned tweets,
\* largest_topic is the lowest index among them (assignments [0, 0, 1, 1]
\* give 0).
C6_TieTakesLowestIndex ==
    (Aggregated /\ Len(y) >= 1) =>
        largest_topic = <<CHOOSE k \in MostPopulous : \A m \in MostPopulous : k <= m>>

\* C7: with at least one tweet, largest_topic is bound to a topic that occurs
\* in the assignments, and no topic is assigned to strictly more tweets.
C7_LargestTopicIsMostPopulous ==
    (Aggregated /\ Len(y) >= 1) =>
        /\ Len(largest_topic) = 1
        /\ \E i \in 1..Len(y) : y[i] = largest_topic[1]
        /\ \A i \in 1..Len(y) : TweetsOf(y[i]) <= TweetsOf(largest_topic[1])

C7_Witness ==
    /\ pc = "done"
    /\ y = <<0, 1, 0>>
    /\ largest_topic = <<0>>
    /\ stdout = <<"0">>

\* C8: with no tweets at all the aggregate ends in an EmptyInput error of its
\* own and no topic index is ever printed.
C8_EmptyInputFails ==
    (Aggregated /\ Len(tweets_projected) = 0) =>
        /\ err = "EmptyInput"
        /\ stdout = << >>

-----------------------------------------------------------------------------
(* Claims about the Outlier Tweets cell (SpecOutlier). *)

\* The statement deriving rows has run.
RowsDerived == pc \in {"q8_gather", "q8_unique", "q8_print", "done"}

\* The cell has computed its final outlier_tweets.
Extracted == pc \in {"q8_print", "done"}

\* The rows (0-based) whose weight on Topic 2 is at least the threshold.
EligibleRows ==
    {i \in 0..(Len(tweets_projected_small) - 1) :
        tweets_projected_small[i + 1] >= Threshold}

\* C1: the rows the cell selects are exactly the rows whose weight is >= the
\* threshold, a weight equal to the threshold included (column
\* [0.15, 0.10, 0.20] gives rows {0, 2}).
C1_RowsAreTheEligibleRows ==
    RowsDerived => {rows[k] : k \in 1..Len(rows)} = EligibleRows

\* C2: the result holds no text twice, and as many texts as there are distinct
\* texts among the tweets whose weight is >= the threshold.
C2_ResultIsTheDistinctEligibleTexts ==
    Extracted =>
        /\ \A i, j \in 1..Len(outlier_tweets) :
              i # j => outlier_tweets[i] # outlier_tweets[j]
        /\ Len(outlier_tweets) = Cardinality({text[i + 1] : i \in EligibleRows})

-----------------------------------------------------------------------------
(* More claims about print_top_words (SpecRanker). *)

\* C11: when the rows of components are as long as the vocabulary (V terms),
\* every line printed carries exactly min(n_top_words, V) terms: V distinct
\* vocabulary terms cut to that length, neither padded nor refused when
\* n_top_words > V.
C11_LinesCarryMinNVTerms ==
    \A k \in 1..Len(stdout) :
        Len(components[k]) = Len(feature_names) =>
            \E q \in IndexPermutations(Len(feature_names)) :
                stdout[k] = "Topic: #" \o ToString(k - 1) \o ": "
                              \o join(", ",
                                      [i \in 1..Min(n_top_words, Len(feature_names))
                                          |-> feature_names[q[i] + 1]])

\* Three terms asked for, two in the vocabulary: two are shown and the call
\* returns.
C11_Witness ==
    /\ pc = "done"
    /\ err = "none"
    /\ n_top_words = 3
    /\ feature_names = <<"dogs", "cats">>
    /\ components = << <<1, 4>>, <<2, 2>> >>
    /\ stdout[1] = "Topic: #0: cats, dogs"
    /\ Len(stdout) = 2

-----------------------------------------------------------------------------
(* More claims about the Outlier Tweets cell (SpecOutlier). *)

\* C12: a tweet whose text is the empty string and whose weight is >= the
\* threshold is selected like any other: the empty string is in the result.
C12_EmptyTextIsReported ==
    (Extracted /\ \E i \in EligibleRows : text[i + 1] = "")
        => \E k \in 1..Len(outlier_tweets) : outlier_tweets[k] = ""

\* C13: the cell is a pure query: no step of it changes an entry of a
\* projection matrix or a record of the tweets table.
C13_InputsUnchanged ==
    [][/\ tweets_projected_small' = tweets_projected_small
       /\ tweets_projected' = tweets_projected
       /\ text' = text]_vars

\* The cell has run to its end over three tweets, one of them reported.
C13_Witness ==
    /\ pc = "done"
    /\ tweets_projected_small = <<2, 3, 4>>
    /\ text = <<"hello world", "", "distinct">>
    /\ outlier_tweets = <<"hello world">>

\* C14: every text in the result is the text of at least one tweet whose
\* weight is >= the threshold.
C14_ResultTextsAreEligible ==
    Extracted =>
        \A k \in 1..Len(outlier_tweets) :
            \E i \in EligibleRows : text[i + 1] = outlier_tweets[k]

\* The dominant topic of tweet i (from 1): the lowest column of its row holding
\* the row maximum.
DominantTopic(i) ==
    CHOOSE k \in 0..(Len(tweets_projected[i]) - 1) :
        /\ \A j \in 1..Len(tweets_projected[i]) :
              tweets_projected[i][j] <= tweets_projected[i][k + 1]
        /\ \A j \in 1..k : tweets_projected[i][j] < tweets_projected[i][k + 1]

\* The first statement of the Outlier Tweets cell has run.
ExtractorStarted == pc # "q8_zeros"

C16_OnlySentinelDropped ==
    /\ RowsDerived =>
          {rows[k] : k \in 1..Len(rows)} = {z[i] : i \in 1..Len(z)} \ {-1}
    /\ (/\ Extracted
        /\ Len(tweets_projected_small) >= 1
        /\ \A i \in 1..Len(tweets_projected_small) :
              tweets_projected_small[i] >= Threshold)
          => Len(outlier_tweets) >= 1

====
